---- MODULE Spec2Model ----
(***************************************************************************)
(* Model of astrbot_plugin_email_narrator: the EmailNarrator plugin        *)
(* (main.py) and its per-account IMAP notifier EmailNotifier (xmail.py).   *)
(*                                                                         *)
(* UIDs are the decimal strings the IMAP server reports; the code compares *)
(* them through int(), so they are modelled as integers.  None (no stored  *)
(* UID) is NoUid.  A message is identified by its UID; the dict the        *)
(* notifier builds (subject, content, date) is a function of the message.  *)
(***************************************************************************)
EXTENDS Integers, Sequences, FiniteSets, TLC

\* ---------------------------------------------------------------- bounds
MaxUid == 4                      \* highest UID the server ever assigns
MaxExpunge == 1                  \* messages another client deletes, per mailbox
MaxTwoUid == 2                   \* highest UID where two accounts are explored
MaxLifeUid == 3                  \* highest UID where start, stop and faults are explored
Accounts == {"a1", "a2"}         \* mailbox users that can be configured
Targets == {"t1", "t2"}          \* sessions (unified_msg_origin values)

NoUid == 0                       \* None / missing key of _last_uids
Uids == 1..MaxUid

\* Settings the specification names but the code does not have.
maxRetries == 2                  \* spec 4.4 / 8: retries before fallback
cap == 2                         \* spec 4.3 step 4: per-cycle fetch cap

VARIABLES
    \* --- configuration (AstrBotConfig)
    accounts,               \* config["accounts"], sequence of users
    preconfigured_targets,  \* config["preconfigured_targets"]
    active_targets,         \* config["active_targets"] as persisted
    \* --- EmailNarrator fields
    _targets, _event_map, _notifiers, _is_running, _email_task, _last_uids,
    state_file,             \* narrator_state.json
    \* --- EmailNotifier.mail per account (TRUE: a handle is held)
    mail,
    \* --- IMAP server: the messages it holds, the next UID it assigns, and
    \* whether it still holds a connection open that was opened by a notifier
    \* object the program has dropped without logout
    mailbox, uidnext, leaked,
    \* --- position and locals of the _email_monitor_loop task
    pc, fetch, results, i, batch, bc,
    \* --- position of the handlers
    inited,                 \* initialize has run
    stopping,               \* callers suspended in _stop_email_service
    unwinding,              \* cancelled tasks that have not finished yet:
                            \* <<caller that cancelled it, targets whose
                            \* _process_and_narrate_email it had in flight>>
    terminating,            \* terminate: "no", "called", "done"
    \* --- history (not program state) of one message, watch = <<user, uid>>,
    \* chosen freely at the start: what holds of it holds of every message
    watch,
    handed,                 \* times it was handed to target t's delivery
    retries,                \* broadcasts of it that left a target without it
    status,                 \* none, failed, due, missed, delivered
    \* --- history per account.  prev: the last fetch_new_emails call that
    \* returned gave back the tip it read, and no mail has arrived since it
    \* read that tip.  cur: the running call has read the tip, and no mail has
    \* arrived since.  raised: the last call that returned ended in the except
    \* clause of xmail.py 136-139.
    quiet

cfgVars == <<accounts, preconfigured_targets, active_targets>>
starVars == <<_targets, _event_map, _notifiers, _is_running, _email_task, _last_uids, state_file>>
srvVars == <<mailbox, uidnext, leaked>>
loopVars == <<pc, fetch, results, i, batch, bc>>
msgVars == <<watch, handed, retries, status>>
histVars == <<msgVars, quiet>>
cmdVars == <<inited, stopping, unwinding, terminating>>
vars == <<cfgVars, starVars, mail, srvVars, loopVars, cmdVars, histVars>>

\* ---------------------------------------------------------------- helpers
Max(S) == CHOOSE x \in S : \A y \in S : y <= x

RECURSIVE SortedSeq(_)
\* ascending sequence of a set of integers (message sequence numbers are
\* ascending in UID)
SortedSeq(S) ==
    IF S = {} THEN <<>>
    ELSE LET m == CHOOSE x \in S : \A y \in S : x <= y
         IN <<m>> \o SortedSeq(S \ {m})

Range(s) == {s[k] : k \in 1..Len(s)}

NoUids == [a \in Accounts |-> NoUid]

\* the fetch coroutine of one account before it is created
FetchIdle == [pc |-> "idle", last_known_uid |-> NoUid, current_latest_uid |-> NoUid,
              new_msg_nums |-> <<>>, new_emails |-> <<>>]
NoResult == [new_emails |-> <<>>, latest_uid |-> NoUid]
NoBroadcast == [email |-> NoUid, snapshot |-> {}, tasks |-> {}, ok |-> {}, raw |-> {}]

\* ---------------------------------------------------------------- Init
\* State after EmailNarrator.__init__ (main.py 35-54); the configuration, the
\* state file left by an earlier run and the server mailbox are inputs.
InitStar ==
    /\ _targets = {}
    /\ _event_map = {}
    /\ _notifiers = <<>>
    /\ _is_running = FALSE
    /\ _email_task = "none"
    /\ _last_uids = NoUids
    /\ mail = [a \in Accounts |-> FALSE]
    /\ pc = "none"
    /\ fetch = [a \in Accounts |-> FetchIdle]
    /\ results = [a \in Accounts |-> NoResult]
    /\ i = 0
    /\ batch = <<>>
    /\ bc = NoBroadcast
    /\ inited = FALSE
    /\ stopping = {}
    /\ unwinding = {}
    /\ terminating = "no"
    /\ leaked = [a \in Accounts |-> FALSE]
    /\ handed = [t \in Targets |-> 0]
    /\ retries = 0
    /\ status = "none"
    /\ quiet = [a \in Accounts |-> [prev |-> FALSE, cur |-> FALSE, raised |-> FALSE]]

\* The server of a configured account holds the messages 1..n on start; the
\* state file is missing, unreadable, or holds what an earlier run wrote.
InitServer(n) ==
    /\ mailbox = [a \in Accounts |-> IF a \in Range(accounts) THEN 1..n ELSE {}]
    /\ uidnext = [a \in Accounts |-> IF a \in Range(accounts) THEN n + 1 ELSE 1]
    /\ watch \in Range(accounts) \X Uids
    /\ \E kind \in {"missing", "corrupt", "ok"} : \E w \in 0..n :
          /\ kind # "ok" => w = 0
          /\ state_file = [kind |-> kind,
                           uids |-> [a \in Accounts |->
                                      IF a \in Range(accounts) THEN w ELSE NoUid]]

\* ---------------------------------------------------------------- state file
\* _load_state (main.py 77-84): the file's mapping, or {} when the file is
\* missing or json.load raises.
_load_state == IF state_file.kind = "ok" THEN state_file.uids ELSE NoUids

\* _save_state (main.py 86-92) writing mapping m: it succeeds, or makedirs/open
\* raises (file untouched), or the write raises after open(..., 'w') truncated
\* the file.  Every exception is logged and swallowed.
_save_state(m, outcome) ==
    CASE outcome = "ok" -> [kind |-> "ok", uids |-> m]
      [] outcome = "open_fails" -> state_file
      [] outcome = "write_fails" -> [kind |-> "corrupt", uids |-> NoUids]
SaveOutcomes == {"ok", "open_fails", "write_fails"}

\* ---------------------------------------------------------------- service
\* _init_notifiers (main.py 94-105): fresh EmailNotifier objects, mail = None.
\* The objects of _notifiers.clear() are dropped as they are: a handle one of
\* them holds is never logged out.
InitNotifiers ==
    /\ _notifiers' = accounts
    /\ mail' = [a \in Accounts |-> FALSE]
    /\ leaked' = [a \in Accounts |-> leaked[a] \/ mail[a]]

\* _start_email_service (main.py 219-222), called with _is_running false:
\* a new task is created; it runs from the top of _email_monitor_loop.
StartService ==
    /\ _is_running' = TRUE
    /\ _email_task' = "live"
    /\ pc' = "loop"
    /\ UNCHANGED <<fetch, results, i, batch, bc>>

\* main.py 72-74, 244-246, 263-265: if not running, init notifiers and start.
StartIfStopped ==
    IF _is_running
    THEN UNCHANGED <<_notifiers, mail, leaked, _is_running, _email_task, loopVars>>
    ELSE InitNotifiers /\ StartService

\* _save_active_targets (main.py 233-235)
_save_active_targets(targets) == targets

\* initialize (main.py 56-74)
Initialize ==
    /\ ~inited
    /\ inited' = TRUE
    /\ _last_uids' = _load_state
    /\ _targets' = preconfigured_targets \cup active_targets
    /\ IF _targets' # {} THEN StartIfStopped
       ELSE UNCHANGED <<_notifiers, mail, leaked, _is_running, _email_task, loopVars>>
    /\ UNCHANGED <<cfgVars, _event_map, state_file, mailbox, uidnext, stopping, unwinding,
                   terminating, histVars>>

\* _auto_restore_target (main.py 237-246), a message from session t
AutoRestore(t) ==
    /\ inited /\ terminating # "done"
    /\ t \in _targets /\ t \notin _event_map
    /\ _event_map' = _event_map \cup {t}
    /\ StartIfStopped
    /\ UNCHANGED <<cfgVars, _targets, _last_uids, state_file, mailbox, uidnext, cmdVars,
                   histVars>>

\* cmd_on (main.py 252-267) from session t; the "already on" branch changes
\* nothing.
CmdOn(t) ==
    /\ inited /\ terminating # "done"
    /\ t \notin _targets
    /\ _event_map' = _event_map \cup {t}
    /\ _targets' = _targets \cup {t}
    /\ active_targets' = _save_active_targets(_targets')
    /\ StartIfStopped
    /\ UNCHANGED <<accounts, preconfigured_targets, _last_uids, state_file, mailbox,
                   uidnext, cmdVars, histVars>>

\* StopService without line 226
StopService_KeepsFlag(c) ==
    /\ _is_running' = TRUE
    /\ _email_task' = "cancelled"
    /\ unwinding' = unwinding \cup {<<c, IF pc = "broadcast" THEN bc.tasks ELSE {}>>}
    /\ pc' = "none"
    /\ fetch' = [a \in Accounts |-> FetchIdle]
    /\ results' = [a \in Accounts |-> NoResult]
    /\ i' = 0
    /\ batch' = <<>>
    /\ bc' = NoBroadcast

\* StopService without the cancel of line 228: the task runs on
StopService_NoCancel(c) ==
    /\ _is_running' = FALSE
    /\ UNCHANGED <<_email_task, unwinding, loopVars>>

\* _stop_email_service (main.py 224-228) called by c with _is_running true,
\* up to the await of the cancelled task.  The task is cancelled where it is
\* suspended and takes no further step of its own; the CancelledError reaches
\* its coroutines later (TaskCancelled).  The notifiers keep the handles they
\* hold.
StopService(c) ==
    /\ _is_running' = FALSE
    /\ _email_task' = "cancelled"
    /\ unwinding' = unwinding \cup {<<c, IF pc = "broadcast" THEN bc.tasks ELSE {}>>}
    /\ pc' = "none"
    /\ fetch' = [a \in Accounts |-> FetchIdle]
    /\ results' = [a \in Accounts |-> NoResult]
    /\ i' = 0
    /\ batch' = <<>>
    /\ bc' = NoBroadcast

\* cmd_off (main.py 269-283) from session t, up to its first suspension; with
\* _is_running false _stop_email_service returns at once (line 225).
CmdOff(t) ==
    /\ inited /\ terminating # "done"
    /\ t \in _targets
    /\ t \notin stopping
    /\ _targets' = _targets \ {t}
    /\ _event_map' = _event_map \ {t}
    /\ active_targets' = _save_active_targets(_targets')
    /\ IF _targets' = {} /\ _is_running
       THEN StopService(t) /\ stopping' = stopping \cup {t}
       ELSE UNCHANGED <<_is_running, _email_task, unwinding, loopVars, stopping>>
    /\ UNCHANGED <<accounts, preconfigured_targets, _notifiers, _last_uids, state_file,
                   mail, srvVars, inited, terminating, histVars>>

\* the task cancelled by c finishes (CancelledError leaves
\* _email_monitor_loop)
TaskCancelled(c) ==
    /\ \E u \in unwinding : u[1] = c /\ unwinding' = unwinding \ {u}
    /\ UNCHANGED <<cfgVars, starVars, mail, srvVars, loopVars, inited, stopping,
                   terminating, histVars>>

\* the task cancelled by c has finished
Finished(c) == \A u \in unwinding : u[1] # c

\* cmd_off resumes from `await self._email_task` (main.py 229-231, 283)
CmdOffResume(t) ==
    /\ t \in stopping
    /\ Finished(t)
    /\ stopping' = stopping \ {t}
    /\ UNCHANGED <<cfgVars, starVars, mail, srvVars, loopVars, inited, unwinding,
                   terminating, histVars>>

\* terminate (main.py 339-343) up to its first suspension: _stop_email_service
\* cancels the task and awaits it, or returns at once (line 225).
Terminate ==
    /\ inited /\ terminating = "no"
    /\ terminating' = "called"
    /\ IF _is_running
       THEN StopService("terminate") /\ stopping' = stopping \cup {"terminate"}
       ELSE UNCHANGED <<_is_running, _email_task, unwinding, loopVars, stopping>>
    /\ UNCHANGED <<cfgVars, _targets, _event_map, _notifiers, _last_uids, state_file,
                   mail, srvVars, inited, histVars>>

\* terminate after _stop_email_service has returned (main.py 341-343): every
\* notifier is disconnected.
TerminateResume ==
    /\ terminating = "called"
    /\ "terminate" \in stopping => Finished("terminate")
    /\ terminating' = "done"
    /\ stopping' = stopping \ {"terminate"}
    /\ mail' = [a \in Accounts |-> FALSE]
    /\ UNCHANGED <<cfgVars, starVars, srvVars, loopVars, inited, unwinding, histVars>>

\* ---------------------------------------------------------------- IMAP server
\* A new message is delivered to the mailbox of account a; UIDs are assigned
\* in strictly ascending order.
Arrive(a) ==
    /\ a \in Range(accounts)
    /\ uidnext[a] <= MaxUid
    /\ mailbox' = [mailbox EXCEPT ![a] = @ \cup {uidnext[a]}]
    /\ uidnext' = [uidnext EXCEPT ![a] = @ + 1]
    /\ quiet' = [quiet EXCEPT ![a].prev = FALSE, ![a].cur = FALSE]
    /\ UNCHANGED <<cfgVars, starVars, mail, leaked, loopVars, cmdVars, msgVars>>

\* Another client deletes (expunges) the newest message u, which lowers the
\* highest UID of the mailbox.  (The loss of an older message shows to the
\* program as a message that SEARCH or FETCH does not return.)
Expunge(a, u) ==
    /\ a \in Range(accounts)
    /\ u \in mailbox[a] /\ u = Max(mailbox[a])
    /\ uidnext[a] - 1 - Cardinality(mailbox[a]) < MaxExpunge
    /\ mailbox' = [mailbox EXCEPT ![a] = @ \ {u}]
    /\ UNCHANGED <<cfgVars, starVars, mail, uidnext, leaked, loopVars, cmdVars, histVars>>

\* ---------------------------------------------------------------- fetch_new_emails
\* a coroutine that has returned (emails, uid)
Returned == [FetchIdle EXCEPT !.pc = "done"]

\* AfterTip without the first-run check of xmail.py 101-103
AfterTip_NoBaseline(last_known_uid, current_latest_uid) ==
    IF current_latest_uid <= last_known_uid
    THEN [ret |-> TRUE, new_emails |-> <<>>, latest_uid |-> current_latest_uid]
    ELSE [ret |-> FALSE, new_emails |-> <<>>, latest_uid |-> current_latest_uid]

\* xmail.py 98-107, once current_latest_uid is known: what the call returns,
\* or that it goes on to the UID-range search.
AfterTip(last_known_uid, current_latest_uid) ==
    IF last_known_uid = NoUid
    THEN [ret |-> TRUE, new_emails |-> <<>>, latest_uid |-> current_latest_uid]
    ELSE IF current_latest_uid <= last_known_uid
    THEN [ret |-> TRUE, new_emails |-> <<>>, latest_uid |-> current_latest_uid]
    ELSE [ret |-> FALSE, new_emails |-> <<>>, latest_uid |-> current_latest_uid]

\* xmail.py 110-111: SEARCH (UID last:*) on mailbox mb; n:* always matches the
\* last message of a non-empty mailbox.
SearchUidRange(mb, last_known_uid) ==
    IF mb = {} THEN <<>>
    ELSE SortedSeq({u \in mb : u >= last_known_uid} \cup {Max(mb)})

\* xmail.py 126-131: a fetched message is kept when its UID is above the
\* last known one.
KeepFetched(new_emails, uid, last_known_uid) ==
    IF uid > last_known_uid THEN Append(new_emails, uid) ELSE new_emails

\* Return where the result is handed to every account of the gather
Return_Shared(a, emails, uid, how) ==
    /\ fetch' = [fetch EXCEPT ![a] = Returned]
    /\ results' = [b \in Accounts |-> [new_emails |-> emails, latest_uid |-> uid]]
    /\ quiet' = [quiet EXCEPT ![a] = [prev |-> how = "tip" /\ (fetch[a].pc = "tip" \/ @.cur),
                                      cur |-> FALSE,
                                      raised |-> how = "raised"]]
    /\ status' = IF /\ status = "due" /\ a = watch[1] /\ how = "tip"
                    /\ watch[2] \in mailbox[a] /\ watch[2] \notin Range(emails)
                 THEN "missed" ELSE status

\* the call of account a returns (emails, uid) to the gather of the loop;
\* how (history only): "tip" when uid is the current_latest_uid the call
\* read, "early" for the returns of lines 78-96, "raised" for line 139.
\* (History: the watched message, due again in this cycle, is missed when a
\* call that read the tip returns without it although the server holds it.)
Return(a, emails, uid, how) ==
    /\ fetch' = [fetch EXCEPT ![a] = Returned]
    /\ results' = [results EXCEPT ![a] = [new_emails |-> emails, latest_uid |-> uid]]
    /\ quiet' = [quiet EXCEPT ![a] = [prev |-> how = "tip" /\ (fetch[a].pc = "tip" \/ @.cur),
                                      cur |-> FALSE,
                                      raised |-> how = "raised"]]
    /\ status' = IF /\ status = "due" /\ a = watch[1] /\ how = "tip"
                    /\ watch[2] \in mailbox[a] /\ watch[2] \notin Range(emails)
                 THEN "missed" ELSE status

\* FetchError without the disconnect of line 138
FetchError_KeepHandle(a) ==
    /\ UNCHANGED mail
    /\ Return(a, <<>>, fetch[a].last_known_uid, "raised")

\* xmail.py 136-139: an exception anywhere: disconnect, return ([], last)
FetchError(a) ==
    /\ mail' = [mail EXCEPT ![a] = FALSE]
    /\ Return(a, <<>>, fetch[a].last_known_uid, "raised")

\* _connect (xmail.py 46-63) and xmail.py 76-78
Connect(a) ==
    /\ pc = "gather" /\ fetch[a].pc = "connect"
    /\ \/ /\ mail' = [mail EXCEPT ![a] = TRUE]
          /\ fetch' = [fetch EXCEPT ![a].pc = "tip"]
          /\ UNCHANGED <<results, quiet, status>>
       \/ FetchError(a)
    /\ UNCHANGED <<cfgVars, starVars, srvVars, pc, i, batch, bc, cmdVars, watch, handed, retries>>

\* xmail.py 80-107: SEARCH ALL, FETCH of the last message's UID, and the
\* decisions on the result.
Tip(a) ==
    /\ pc = "gather" /\ fetch[a].pc = "tip"
    /\ \/ \* the tip is read
          /\ mailbox[a] # {}
          /\ LET r == AfterTip(fetch[a].last_known_uid, Max(mailbox[a]))
             IN IF r.ret
                THEN Return(a, r.new_emails, r.latest_uid, "tip")
                ELSE /\ fetch' = [fetch EXCEPT ![a].pc = "search",
                                               ![a].current_latest_uid = r.latest_uid]
                     /\ quiet' = [quiet EXCEPT ![a].cur = TRUE]
                     /\ UNCHANGED <<results, status>>
          /\ UNCHANGED mail
       \/ \* empty mailbox, status not OK, or no UID in the reply (82-96)
          /\ Return(a, <<>>, fetch[a].last_known_uid, "early")
          /\ UNCHANGED mail
       \/ FetchError(a)
    /\ UNCHANGED <<cfgVars, starVars, srvVars, pc, i, batch, bc, cmdVars, watch, handed, retries>>

\* xmail.py 109-118: the UID-range search
Search(a) ==
    /\ pc = "gather" /\ fetch[a].pc = "search"
    /\ \/ LET nums == SearchUidRange(mailbox[a], fetch[a].last_known_uid)
          IN IF nums = <<>>
             THEN Return(a, <<>>, fetch[a].current_latest_uid, "tip")
             ELSE /\ fetch' = [fetch EXCEPT ![a].pc = "fetch", ![a].new_msg_nums = nums]
                  /\ UNCHANGED <<results, quiet, status>>
       \/ \* status not OK (112-113)
          Return(a, <<>>, fetch[a].current_latest_uid, "tip")
    /\ UNCHANGED <<cfgVars, starVars, mail, srvVars, pc, i, batch, bc, cmdVars, watch, handed,
                   retries>>

\* xmail.py 136-139 for an exception raised by the search
SearchError(a) ==
    /\ pc = "gather" /\ fetch[a].pc = "search"
    /\ FetchError(a)
    /\ UNCHANGED <<cfgVars, starVars, srvVars, pc, i, batch, bc, cmdVars, watch, handed, retries>>

\* after one FETCH of the loop at xmail.py 119-133 with emails collected:
\* the next FETCH, or the return at line 135
FetchNext(a, emails) ==
    IF Len(fetch[a].new_msg_nums) > 1
    THEN /\ fetch' = [fetch EXCEPT ![a].new_msg_nums = Tail(@), ![a].new_emails = emails]
         /\ UNCHANGED <<results, quiet, status>>
    ELSE Return(a, emails, fetch[a].current_latest_uid, "tip")

\* xmail.py 119-135: FETCH (UID RFC822) of the next message number
FetchOne(a) ==
    /\ pc = "gather" /\ fetch[a].pc = "fetch"
    /\ LET uid == Head(fetch[a].new_msg_nums)
       IN \/ \* the message is returned
             /\ uid \in mailbox[a]
             /\ FetchNext(a, KeepFetched(fetch[a].new_emails, uid, fetch[a].last_known_uid))
             /\ UNCHANGED mail
          \/ \* result not OK or a short reply: logged, skipped (132-133)
             /\ FetchNext(a, fetch[a].new_emails)
             /\ UNCHANGED mail
          \/ FetchError(a)
    /\ UNCHANGED <<cfgVars, starVars, srvVars, pc, i, batch, bc, cmdVars, watch, handed, retries>>

\* ---------------------------------------------------------------- _email_monitor_loop
\* main.py 111-121: the loop condition holds, one fetch_new_emails coroutine
\* per notifier is created with the stored UID, and the task awaits gather.
LoopStart ==
    /\ pc = "loop" /\ _is_running
    /\ fetch' = [a \in Accounts |->
                   IF a \in Range(_notifiers)
                   THEN [FetchIdle EXCEPT !.pc = "connect", !.last_known_uid = _last_uids[a]]
                   ELSE FetchIdle]
    /\ results' = [a \in Accounts |-> NoResult]
    /\ pc' = "gather"
    /\ UNCHANGED <<cfgVars, starVars, mail, srvVars, i, batch, bc, cmdVars, histVars>>

\* main.py 121-124: gather returns once every coroutine has returned
GatherDone ==
    /\ pc = "gather"
    /\ \A a \in Range(_notifiers) : fetch[a].pc = "done"
    /\ fetch' = [a \in Accounts |-> FetchIdle]
    /\ i' = 1
    /\ pc' = IF _notifiers = <<>> THEN "sleep" ELSE "results"
    /\ UNCHANGED <<cfgVars, starVars, mail, srvVars, results, batch, bc, cmdVars, histVars>>

\* main.py 133-135: the stored UID after a result with latest_uid
UpdateLastUid(stored, latest_uid) ==
    IF latest_uid # NoUid /\ stored # latest_uid THEN latest_uid ELSE stored

\* position of the loop after the result (or the last email) of account
\* number i: the next result, or the sleep at main.py 143
AfterAccount ==
    /\ i' = i + 1
    /\ pc' = IF i + 1 > Len(_notifiers) THEN "sleep" ELSE "results"

\* ApplyResult without the _save_state() of line 136
ApplyResult_NoSave(outcome) ==
    /\ pc = "results"
    /\ LET user == _notifiers[i]
           new_emails == results[user].new_emails
           latest_uid == results[user].latest_uid
           updated == UpdateLastUid(_last_uids[user], latest_uid)
       IN /\ _last_uids' = [_last_uids EXCEPT ![user] = updated]
          /\ UNCHANGED state_file
          /\ IF new_emails # <<>>
             THEN /\ batch' = new_emails
                  /\ pc' = "emails"
                  /\ UNCHANGED i
             ELSE /\ AfterAccount
                  /\ UNCHANGED batch
    /\ UNCHANGED <<cfgVars, _targets, _event_map, _notifiers, _is_running, _email_task,
                   mail, srvVars, fetch, results, bc, cmdVars, histVars>>

\* main.py 124-139: the result of account number i is unpacked, the stored
\* UID is updated and saved, and the new emails become the batch to broadcast.
ApplyResult(outcome) ==
    /\ pc = "results"
    /\ LET user == _notifiers[i]
           new_emails == results[user].new_emails
           latest_uid == results[user].latest_uid
           updated == UpdateLastUid(_last_uids[user], latest_uid)
       IN /\ _last_uids' = [_last_uids EXCEPT ![user] = updated]
          /\ IF updated # _last_uids[user]
             THEN state_file' = _save_state(_last_uids', outcome)
             ELSE UNCHANGED state_file
          /\ IF new_emails # <<>>
             THEN /\ batch' = new_emails
                  /\ pc' = "emails"
                  /\ UNCHANGED i
             ELSE /\ AfterAccount
                  /\ UNCHANGED batch
    /\ UNCHANGED <<cfgVars, _targets, _event_map, _notifiers, _is_running, _email_task,
                   mail, srvVars, fetch, results, bc, cmdVars, histVars>>

\* main.py 143: the sleep between two cycles ends.  (History: a message whose
\* delivery failed in the cycle that ends is due again in the next one.)
Sleep ==
    /\ pc = "sleep"
    /\ pc' = "loop"
    /\ status' = IF status = "failed" THEN "due" ELSE status
    /\ UNCHANGED <<cfgVars, starVars, mail, srvVars, fetch, results, i, batch, bc,
                   cmdVars, watch, handed, retries, quiet>>

\* main.py 144-146: a statement of the try block between two awaits raises
\* an Exception (the awaited gathers collect the exceptions of their
\* coroutines, _save_state swallows its own): it is logged, the rest of the
\* cycle is skipped and the task sleeps for _interval * 2.
CycleError ==
    /\ pc \in {"results", "emails"}
    /\ pc' = "backoff"
    /\ batch' = <<>>
    /\ UNCHANGED <<cfgVars, starVars, mail, srvVars, fetch, results, i, bc, cmdVars, histVars>>

\* Backoff where the except clause leaves the loop instead of sleeping
Backoff_Exits ==
    /\ pc = "backoff"
    /\ pc' = "none"
    /\ status' = IF status = "failed" THEN "due" ELSE status
    /\ UNCHANGED <<cfgVars, starVars, mail, srvVars, fetch, results, i, batch, bc,
                   cmdVars, watch, handed, retries, quiet>>

\* main.py 146: the sleep of the except clause ends, the while condition is
\* evaluated next.  (History as for Sleep.)
Backoff ==
    /\ pc = "backoff"
    /\ pc' = "loop"
    /\ status' = IF status = "failed" THEN "due" ELSE status
    /\ UNCHANGED <<cfgVars, starVars, mail, srvVars, fetch, results, i, batch, bc,
                   cmdVars, watch, handed, retries, quiet>>

\* ---------------------------------------------------------------- broadcast
\* The ways one _process_and_narrate_email call ends (main.py 166-216):
\*   "fallback"        no provider, the raw text is sent (170-174)
\*   "fallback_error"  no provider, event.send raises (173, 215)
\*   "no_persona"      no system prompt (192-194)
\*   "llm_empty"       no completion text (203-205)
\*   "error"           an exception up to and including event.send (215)
\*   "narrated"        the narration is sent and recorded (210-213)
\*   "unrecorded"      the narration is sent, add_message_pair raises (212, 215)
NarrateOutcomes == {"fallback", "fallback_error", "no_persona", "llm_empty", "error",
                    "narrated", "unrecorded"}

\* what the target received: the narration, the raw text, or nothing
Class(kind) ==
    CASE kind \in {"narrated", "unrecorded"} -> "narrated"
      [] kind = "fallback" -> "fallback"
      [] kind = "fallback_error" -> "fallback_fail"
      [] OTHER -> "primary_fail"

Sent(class) == class \in {"narrated", "fallback"}

\* history: the broadcast of message u of account a has ended
Attempted(a, u, delivered) ==
    IF <<a, u>> = watch
    THEN /\ status' = IF status = "delivered" \/ delivered THEN "delivered" ELSE "failed"
         /\ retries' = IF delivered THEN retries ELSE retries + 1
    ELSE UNCHANGED <<status, retries>>

\* main.py 140-141 after one email: the next email of the batch, or the next
\* account
AfterEmail ==
    /\ batch' = Tail(batch)
    /\ IF Tail(batch) # <<>>
       THEN pc' = "emails" /\ UNCHANGED i
       ELSE AfterAccount

\* the coroutines _broadcast_to_targets creates (main.py 153-161): one per
\* target of the snapshot that has an event instance
BroadcastTasks(targets, event_map) == targets \cap event_map

\* main.py 140-141, 148-164: _broadcast_to_targets for the next email of the
\* batch, up to the await of gather; without tasks it returns at once.
BroadcastStart ==
    /\ pc = "emails"
    /\ LET user == _notifiers[i]
           email == Head(batch)
           tasks == BroadcastTasks(_targets, _event_map)
       IN IF tasks = {}
          THEN /\ Attempted(user, email, _targets = {})
               /\ AfterEmail
               /\ UNCHANGED bc
          ELSE /\ bc' = [email |-> email, snapshot |-> _targets, tasks |-> tasks, ok |-> {},
                      raw |-> {}]
               /\ pc' = "broadcast"
               /\ UNCHANGED <<i, batch, status, retries>>
    /\ UNCHANGED <<cfgVars, starVars, mail, srvVars, fetch, results, cmdVars, watch,
                   handed, quiet>>

\* _process_and_narrate_email (main.py 166-216) for target t
ProcessAndNarrate(t) ==
    /\ pc = "broadcast"
    /\ t \in bc.tasks
    /\ \E kind \in NarrateOutcomes :
          /\ bc' = [bc EXCEPT !.tasks = @ \ {t},
                              !.ok = IF Sent(Class(kind)) THEN @ \cup {t} ELSE @,
                              !.raw = IF Class(kind) = "fallback" THEN @ \cup {t} ELSE @]
    /\ handed' = IF <<_notifiers[i], bc.email>> = watch
                 THEN [handed EXCEPT ![t] = @ + 1] ELSE handed
    /\ UNCHANGED <<cfgVars, starVars, mail, srvVars, pc, fetch, results, i, batch,
                   cmdVars, watch, retries, status, quiet>>

\* main.py 163-164: gather returns, _broadcast_to_targets returns
BroadcastEnd ==
    /\ pc = "broadcast"
    /\ bc.tasks = {}
    /\ Attempted(_notifiers[i], bc.email, bc.ok = bc.snapshot)
    /\ AfterEmail
    /\ bc' = NoBroadcast
    /\ UNCHANGED <<cfgVars, starVars, mail, srvVars, fetch, results, cmdVars, watch,
                   handed, quiet>>

\* ---------------------------------------------------------------- specifications
Server == \E a \in Accounts : Arrive(a) \/ \E u \in Uids : Expunge(a, u)

FetchStep == \E a \in Accounts : Connect(a) \/ Tip(a) \/ Search(a) \/ SearchError(a) \/ FetchOne(a)

Loop == LoopStart \/ GatherDone \/ ApplyResult("ok") \/ BroadcastStart
           \/ (\E t \in Targets : ProcessAndNarrate(t)) \/ BroadcastEnd \/ Sleep

\* the except clause of the loop
LoopExcept == CycleError \/ Backoff

\* One account; the targets come from the configuration and stay on; the
\* state file can be written and no statement of the loop body raises.
InitSched ==
    /\ InitStar
    /\ accounts = <<"a1">>
    /\ preconfigured_targets = {"t1"}
    /\ active_targets \in {{}, {"t2"}}
    /\ \E n \in 0..1 : InitServer(n)

NextSched ==
    \/ Initialize
    \/ \E t \in Targets : AutoRestore(t)
    \/ Server
    \/ FetchStep
    \/ Loop

SpecSched == InitSched /\ [][NextSched]_vars

\* The target commands alone: any configuration of preconfigured and saved
\* targets, sessions switching the broadcast on and off; the monitor task is
\* started and cancelled but its cycles are left out.
InitTargets ==
    /\ InitStar
    /\ accounts = <<"a1">>
    /\ preconfigured_targets \in SUBSET Targets
    /\ active_targets \in SUBSET (Targets \ preconfigured_targets)
    /\ mailbox = [a \in Accounts |-> {}]
    /\ uidnext = [a \in Accounts |-> 1]
    /\ state_file = [kind |-> "missing", uids |-> NoUids]
    /\ watch = <<"a1", 1>>

NextTargets ==
    \/ Initialize
    \/ \E t \in Targets : AutoRestore(t)
    \/ \E t \in Targets : CmdOn(t)
    \/ \E t \in Targets : CmdOff(t)
    \/ \E t \in Targets : CmdOffResume(t)
    \/ \E t \in Targets : TaskCancelled(t)

SpecTargets == InitTargets /\ [][NextTargets]_vars

\* callers of _stop_email_service: cmd_off of a session, or terminate
Callers == Targets \cup {"terminate"}

\* mail arrives while the plugin is started, stopped and terminated
ArriveLife == \E a \in Accounts : uidnext[a] <= MaxLifeUid /\ Arrive(a)

\* The life of the plugin: one account; sessions switch the broadcast on and
\* off and the plugin is terminated while the monitor task runs its cycles.
InitLife ==
    /\ InitStar
    /\ accounts = <<"a1">>
    /\ preconfigured_targets \in {{}, {"t1"}}
    /\ active_targets = {}
    /\ \E n \in 0..1 : InitServer(n)
    /\ watch = <<"a1", 1>>

NextLife ==
    \/ Initialize
    \/ \E t \in Targets : AutoRestore(t)
    \/ \E t \in Targets : CmdOn(t)
    \/ \E t \in Targets : CmdOff(t)
    \/ \E t \in Targets : CmdOffResume(t)
    \/ \E c \in Callers : TaskCancelled(c)
    \/ Terminate
    \/ TerminateResume
    \/ ArriveLife
    \/ FetchStep
    \/ Loop
    \/ LoopExcept

SpecLife == InitLife /\ [][NextLife]_vars

\* _save_state fails while the result of an account is applied
SaveFails == \E outcome \in SaveOutcomes \ {"ok"} : ApplyResult(outcome)

\* The running service with every fault of a cycle: fetch errors, delivery
\* errors, failing saves and exceptions in the loop body.  No command stops
\* it.  The event loop resumes a coroutine whose await has completed, and the
\* awaited operations (IMAP commands with their timeout, sleeps) complete.
InitFaults ==
    /\ InitStar
    /\ accounts = <<"a1">>
    /\ preconfigured_targets = {"t1"}
    /\ active_targets = {}
    /\ \E n \in 0..1 : InitServer(n)
    /\ watch = <<"a1", 2>>

NextFaults ==
    \/ Initialize
    \/ \E t \in Targets : AutoRestore(t)
    \/ ArriveLife
    \/ FetchStep
    \/ Loop
    \/ SaveFails
    \/ LoopExcept

SpecFaults ==
    /\ InitFaults /\ [][NextFaults]_vars
    /\ WF_vars(Initialize)
    /\ WF_vars(FetchStep)
    /\ WF_vars(Loop \/ SaveFails)
    /\ WF_vars(Backoff)

\* mail arrives for either of two accounts
ArriveTwo == \E a \in Accounts : uidnext[a] <= MaxTwoUid /\ Arrive(a)

\* Two accounts fetched concurrently in each cycle; one target, on from the
\* configuration; the state file can be written.
InitTwo ==
    /\ InitStar
    /\ accounts = <<"a1", "a2">>
    /\ preconfigured_targets = {"t1"}
    /\ active_targets = {}
    /\ InitServer(1)
    /\ watch = <<"a2", 2>>

NextTwo ==
    \/ Initialize
    \/ \E t \in Targets : AutoRestore(t)
    \/ ArriveTwo
    \/ FetchStep
    \/ Loop

SpecTwo == InitTwo /\ [][NextTwo]_vars

\* ================================================================ claims
\* The watched message and its account.
wUser == watch[1]
wUid == watch[2]

\* the call of account a returns in this step
Returns(a) == fetch[a].pc # "done" /\ fetch'[a].pc = "done"

\* the result of account a is applied in this step (main.py 131-139)
Applies(a) ==
    /\ pc = "results" /\ pc' \notin {"none", "backoff"}
    /\ i <= Len(_notifiers) /\ _notifiers[i] = a
    /\ pc' # "results" \/ i' # i

\* the watched message was returned by a fetch to the loop and has not been
\* delivered to every target since
SurfacedUndelivered ==
    /\ status # "delivered"
    /\ \/ status \in {"failed", "due", "missed"}
       \/ /\ pc \in {"results", "emails", "broadcast"}
          /\ wUid \in Range(results[wUser].new_emails)

\* C1: for every account the stored watermark _last_uids[user] never
\* decreases, whatever the server mailbox does, also when the highest UID the
\* server reports is lower than the stored one.
C1_WatermarkNeverDecreases ==
    [][\A a \in Accounts : inited => _last_uids'[a] >= _last_uids[a]]_vars

\* C2: the stored and the persisted watermark of an account are never at or
\* above the UID of a surfaced message that has not yet been delivered to
\* every active target.
C2_WatermarkOnlyAfterDelivery ==
    SurfacedUndelivered =>
        /\ _last_uids[wUser] < wUid
        /\ state_file.kind = "ok" => state_file.uids[wUser] < wUid

\* C3: a message is handed to a target's _process_and_narrate_email at most
\* once, under every interleaving of mail arrival with the steps of
\* fetch_new_emails.
C3_AtMostOnce == \A t \in Targets : handed[t] <= 1

\* C4: a surfaced message whose delivery did not succeed for every active
\* target in one cycle is attempted again in the next cycle, until it has
\* been delivered to every active target: no message is missed.
C4_FailedIsRetried == status # "missed"

\* C5 (second half): while a message of a batch has failed and is not yet
\* delivered, no later message of the account is handed to the targets.
C5_LaterNotAttempted ==
    status \in {"failed", "due", "missed"} =>
        ~(pc = "broadcast" /\ _notifiers[i] = wUser /\ bc.email > wUid)

\* C5: in a batch [m1, m2, m3] of one account where the delivery of m2 (the
\* watched message) has failed for a target, the stored watermark is m1's
\* UID, and m3 is not attempted in this cycle nor later before m2 is
\* delivered.
C5_OrderingUnderPartialFailure ==
    LET batch3 == results[wUser].new_emails
    IN (/\ pc \in {"emails", "broadcast"}
        /\ _notifiers[i] = wUser
        /\ Len(batch3) = 3 /\ batch3[2] = wUid
        /\ status = "failed")
       => /\ _last_uids[wUser] = batch3[1]
          /\ batch = <<batch3[3]>> => pc # "emails"
          /\ C5_LaterNotAttempted

\* C6: a fetch_new_emails(None) call returns no messages, and the token it
\* returns is the server tip it read (None only when the mailbox is empty or
\* the tip could not be read); the loop then surfaces nothing for the account
\* and stores that tip.
C6_FirstRunBaseline ==
    [][\A a \in Accounts :
        /\ (Returns(a) /\ fetch[a].last_known_uid = NoUid) =>
              /\ results'[a].new_emails = <<>>
              /\ results'[a].latest_uid # NoUid =>
                    /\ fetch[a].pc = "tip"
                    /\ mailbox[a] # {}
                    /\ results'[a].latest_uid = Max(mailbox[a])
        /\ (Applies(a) /\ _last_uids[a] = NoUid) =>
              /\ batch' = <<>> /\ pc' # "emails"
              /\ _last_uids'[a] = results[a].latest_uid
      ]_vars

\* C6 witness: the first-run call of an account whose mailbox holds two
\* messages has returned ([], tip) and the loop has stored the tip.
C6_Witness ==
    \E a \in Accounts :
        /\ state_file.kind = "ok" /\ state_file.uids[a] = _last_uids[a]
        /\ pc = "sleep"
        /\ results[a] = [new_emails |-> <<>>, latest_uid |-> 2]
        /\ _last_uids[a] = 2
        /\ mailbox[a] = {1, 2}
        /\ status = "none" /\ \A t \in Targets : handed[t] = 0

\* C7: when the tip is more than cap above the last known UID (and the
\* server still holds every message of the gap), the call returns at most
\* cap messages, all among the cap highest UIDs up to the tip.
C7_BurstCap ==
    [][\A a \in Accounts :
        (/\ Returns(a)
         /\ fetch[a].pc = "fetch"
         /\ fetch[a].current_latest_uid - fetch[a].last_known_uid > cap
         /\ (fetch[a].last_known_uid + 1)..fetch[a].current_latest_uid \subseteq mailbox[a])
        => /\ Len(results'[a].new_emails) <= cap
           /\ \A k \in 1..Len(results'[a].new_emails) :
                 results'[a].new_emails[k] > fetch[a].current_latest_uid - cap
      ]_vars

\* C8: a fetch_new_emails call made with the watermark the previous call
\* left, while no mail has arrived since that call read the server tip,
\* returns no messages and a token that leaves the stored watermark unchanged.
C8_IdempotentRefetch ==
    [][\A a \in Accounts :
        (/\ Returns(a)
         /\ quiet[a].prev
         /\ fetch[a].last_known_uid = _last_uids[a]
         /\ fetch[a].last_known_uid # NoUid)
        => /\ results'[a].new_emails = <<>>
           /\ UpdateLastUid(_last_uids[a], results'[a].latest_uid) = _last_uids[a]
      ]_vars

\* C9: the raw-text fallback is sent to a target for a message only when
\* that message has already failed delivery maxRetries times.
C9_FallbackOnlyAfterRetries ==
    (/\ pc = "broadcast"
     /\ <<_notifiers[i], bc.email>> = watch
     /\ bc.raw # {})
    => retries >= maxRetries

\* C10: after any sequence of initialize, cmd_on and cmd_off calls the
\* persisted config["active_targets"] contains no preconfigured target.
C10_PreconfiguredNotPersisted == active_targets \cap preconfigured_targets = {}

\* C11: once initialize has loaded the preconfigured targets, every
\* preconfigured target stays in the active target set _targets, whatever
\* cmd_on and cmd_off calls the sessions issue.
C11_PreconfiguredStays == inited => preconfigured_targets \subseteq _targets

\* the monitor task exists, is not cancelled and the service flag is set
SchedulerRunning == _is_running /\ _email_task = "live" /\ pc # "none"

\* the service flag is clear and no monitor task is scheduled
SchedulerStopped == ~_is_running /\ pc = "none"

\* C12: between initialize and terminate, once every command has completed
\* (no caller is suspended in _stop_email_service), the monitor scheduler
\* runs if and only if the active target set is not empty.
C12_RunningIffTargets ==
    (inited /\ terminating = "no" /\ stopping = {}) =>
        IF _targets # {} THEN SchedulerRunning ELSE SchedulerStopped

\* C12 witness: the service was stopped and started again (a handle of the
\* first run's notifier was dropped by _init_notifiers), every command has
\* completed, a dynamic target is on and the scheduler runs.
C12_Witness ==
    /\ inited /\ terminating = "no" /\ stopping = {} /\ unwinding = {}
    /\ leaked["a1"]
    /\ _targets = {"t2"}
    /\ SchedulerRunning /\ pc = "broadcast"

\* C13: a fetch_new_emails call that ends in its except clause leaves the
\* notifier without a handle (mail = None) and returns ([], last_known_uid);
\* applying that result, the loop leaves the stored and the persisted
\* watermark of the account as they are and broadcasts nothing for it.
C13_FetchErrorIsContained ==
    [][\A a \in Accounts :
        /\ (Returns(a) /\ quiet'[a].raised) =>
              /\ ~mail'[a]
              /\ results'[a] = [new_emails |-> <<>>, latest_uid |-> fetch[a].last_known_uid]
        /\ (Applies(a) /\ quiet[a].raised) =>
              /\ _last_uids' = _last_uids
              /\ state_file' = state_file
              /\ batch' = <<>> /\ pc' # "emails"
      ]_vars

\* C13 witness: with watermark 1 stored and message 2 on the server, the call
\* of the cycle raised; the cycle has ended with the watermark still 1, no
\* handle held and nothing handed to any target.
C13_Witness ==
    \E a \in Accounts :
        /\ pc = "sleep"
        /\ quiet[a].raised /\ ~mail[a]
        /\ results[a] = [new_emails |-> <<>>, latest_uid |-> 1]
        /\ _last_uids[a] = 1 /\ state_file.uids[a] = 1
        /\ mailbox[a] = {1, 2}
        /\ watch = <<a, 2>> /\ \A t \in Targets : handed[t] = 0

\* a new cycle has just begun: the fetch_new_emails coroutines are created
\* and none has run yet (main.py 114-121)
CycleBegins ==
    /\ pc = "gather"
    /\ \A a \in Range(_notifiers) : fetch[a].pc = "connect"

\* C14: while the service runs and is not cancelled, no failure in a cycle
\* ends the scheduler loop: from every point of a cycle, and from the sleep
\* of the except clause after a cycle-level error, a new cycle eventually
\* begins.
C14_NewCycleAlwaysBegins ==
    /\ (pc # "none" /\ ~CycleBegins) ~> CycleBegins
    /\ (pc = "backoff") ~> CycleBegins

\* C14 witness: a save of the state file failed, the delivery of a message
\* failed, and in a later cycle a statement of the loop body raised: the
\* task sleeps in the except clause.
C14_Witness ==
    /\ _is_running /\ pc = "backoff"
    /\ retries > 0
    /\ state_file.kind = "corrupt"

\* C15: whatever happens during _save_state, the state file afterwards is
\* either the complete new mapping or what it was before: a step that
\* changes the file leaves in it the whole of _last_uids, loadable.
C15_SaveIsCrashConsistent ==
    [][state_file' # state_file =>
          /\ state_file'.kind = "ok"
          /\ state_file'.uids = _last_uids'
          /\ _load_state' = _last_uids'
      ]_vars

\* C16: at every suspension point of the scheduler task, and after the task
\* was cancelled at any point of a fetch or a delivery, the persisted
\* watermark document (what _load_state reads from the state file) equals
\* the in-memory map _last_uids, as long as no save has failed.
C16_PersistedEqualsMemory == inited => _load_state = _last_uids

\* C16 witness: the task stored and saved watermark 2 and was then cancelled
\* while the delivery of message 2 to a target was in flight.
C16_Witness ==
    /\ \E u \in unwinding : u[2] # {}
    /\ _last_uids["a1"] = 2
    /\ state_file = [kind |-> "ok", uids |-> _last_uids]

\* a call of _stop_email_service returns at line 225 in this step, within
\* terminate or within the cmd_off that removes the last target
StopReturnsAtOnce ==
    /\ inited /\ ~_is_running
    /\ \/ terminating = "no" /\ terminating' = "called"
       \/ _targets # {} /\ _targets' = {}

\* C17: every call of _stop_email_service, also one that overlaps another,
\* returns only after the scheduler task in flight has finished: when a
\* suspended call resumes the task it cancelled has finished, when a call
\* returns at once no cancelled task is still unfinished, and only a task
\* that is live and not stopped takes steps of a cycle.
C17_StopWaitsForTask ==
    [][/\ \A c \in Callers : (c \in stopping /\ c \notin stopping') => Finished(c)
       /\ StopReturnsAtOnce => unwinding = {}
       /\ pc # "none" => (_is_running /\ _email_task = "live")
      ]_vars

\* the _process_and_narrate_email coroutines for target t that have started
\* and not finished: the one of the running broadcast, and those of
\* cancelled tasks that have not finished yet
InFlight(t) ==
    (IF pc = "broadcast" /\ t \in bc.tasks THEN 1 ELSE 0)
    + Cardinality({u \in unwinding : t \in u[2]})

\* C18: at no time are two _process_and_narrate_email sequences in progress
\* for the same target, also when the service is stopped and started again
\* while a broadcast is in flight.
C18_PerTargetSerialization == \A t \in Targets : InFlight(t) <= 1

\* the mailbox connections of account a that were opened and not closed: the
\* handle of the current notifier, and one a dropped notifier left open
LiveConnections(a) ==
    (IF mail[a] THEN 1 ELSE 0) + (IF leaked[a] THEN 1 ELSE 0)

\* C19: for every account at most one live mailbox connection exists at any
\* time, across cycles, connection failures, stop and start of the service
\* and the re-initialization of the notifiers.
C19_OneLiveConnection == \A a \in Accounts : LiveConnections(a) <= 1

\* C20: the fetches of a cycle do not affect one another.  The return of one
\* account's call leaves every other call and result as they are; applying
\* the result of an account updates that account's watermark from its own
\* token, makes its own new messages the batch to broadcast and leaves every
\* other account's watermark unchanged; an account whose call raised keeps
\* its watermark; the emails being broadcast are those of the account whose
\* result was applied.
C20_AccountIsolation ==
    [][/\ \A a \in Accounts :
          /\ Returns(a) =>
                \A b \in Accounts \ {a} : results'[b] = results[b] /\ fetch'[b] = fetch[b]
          /\ Applies(a) =>
                /\ \A b \in Accounts \ {a} : _last_uids'[b] = _last_uids[b]
                /\ _last_uids'[a] = UpdateLastUid(_last_uids[a], results[a].latest_uid)
                /\ batch' = results[a].new_emails
                /\ quiet[a].raised => _last_uids'[a] = _last_uids[a]
       /\ pc \in {"emails", "broadcast"} =>
             Range(batch) \subseteq Range(results[_notifiers[i]].new_emails)
      ]_vars

\* C20 witness: both accounts had watermark 1 and a new message 2; in one
\* cycle the call of a1 raised and the call of a2 returned ([m2], 2); the
\* watermark of a1 is still 1, that of a2 is 2, and m2 of a2 is being
\* broadcast.
C20_Witness ==
    /\ pc = "broadcast" /\ _notifiers[i] = "a2" /\ bc.email = 2
    /\ quiet["a1"].raised /\ results["a1"] = [new_emails |-> <<>>, latest_uid |-> 1]
    /\ mailbox["a1"] = {1, 2}
    /\ _last_uids = [a \in Accounts |-> IF a = "a2" THEN 2 ELSE 1]

\* the messages a returning call of account a hands back lie in lo..hi
ReturnedWithin(a, lo, hi) ==
    \A k \in 1..Len(results'[a].new_emails) : results'[a].new_emails[k] \in lo..hi

\* the messages a returning call of account a hands back are in ascending
\* order of identifier
ReturnedAscending(a) ==
    \A k \in 1..Len(results'[a].new_emails) - 1 :
        results'[a].new_emails[k] < results'[a].new_emails[k + 1]

\* C21: when fetch_new_emails was called with a watermark and returns, every
\* message it returns has an identifier in lastKnown+1 .. tip, where tip is
\* the token returned by the same call, and the messages are returned in
\* ascending order of identifier; no returned message lies above the token.
C21_ReturnedRange ==
    [][\A a \in Accounts :
          (Returns(a) /\ fetch[a].last_known_uid # NoUid) =>
              /\ ReturnedWithin(a, fetch[a].last_known_uid + 1, results'[a].latest_uid)
              /\ ReturnedAscending(a)
      ]_vars

\* _start_email_service passes line 220 and creates a task (221-222)
TaskCreated == ~_is_running /\ _is_running'

\* C22: at most one _email_monitor_loop task is able to fetch, broadcast or
\* write watermarks at any time.  A cancelled task takes no further step, so
\* the tasks able to act are those at a position of the loop (pc): a task is
\* created only when no task is at a position of the loop, and a task is at
\* a position of the loop only while the service is flagged running and
\* _email_task is that task, not cancelled.
C22_SingleLoopTask ==
    [][/\ TaskCreated => pc = "none"
       /\ pc' # "none" => (_is_running' /\ _email_task' = "live")
      ]_vars

\* C22 witness: a cmd_off is suspended in _stop_email_service, the task it
\* cancelled has not finished, and a task started since then is in the
\* UID-range search of a fetch.
C22_Witness ==
    /\ \E t \in Targets : t \in stopping /\ ~Finished(t)
    /\ _is_running /\ _email_task = "live"
    /\ pc = "gather" /\ fetch["a1"].pc = "search"

====
